---- MODULE Spec2Model ----
(***************************************************************************)
(* Matchmaking and chat-session core of the dating app: the queue          *)
(* (convex/queue: join, leave, status), the decision protocol              *)
(* (convex/decisions: makeDecision, skipToReveal), the chat-request        *)
(* protocol (convex/chatRequests: send, accept, decline) and the message   *)
(* store (convex/messages: send, leaveChat).                               *)
(*                                                                         *)
(* Every Convex mutation is one serializable transaction, so each handler  *)
(* is one action of Spec.  StepSpec runs join one database call at a time. *)
(***************************************************************************)
EXTENDS Integers, Sequences, FiniteSets, TLC

\* ------------------------------------------------------------------ bounds

NumUsers == 3
MaxSessions == 3
MaxMatches == 2
MaxRequests == 2
MaxMessages == 1
MaxTicks == 1
MaxCalls == 7

\* 15 * 60 * 1000 milliseconds (queue.join: speedDatingEndsAt)
FifteenMinutes == 900000

Users == 1..NumUsers

\* An optional field of a document: <<>> is undefined, <<x>> holds x.
Undefined == <<>>
Some(x) == <<x>>
IsDefined(o) == o # Undefined
\* JavaScript truthiness of an optional boolean (undefined and false are falsy).
Truthy(o) == o = Some(TRUE)

VARIABLES
    isInQueue,     \* users table: the isInQueue field of each user
    chatSessions,  \* chatSessions table, in creation order (_id = index)
    matches,       \* matches table, in creation order (_id = index)
    chatRequests,  \* chatRequests table, in creation order (_id = index)
    messages,      \* messages table, in creation order
    deleted,       \* the users, chatSessions and matches documents deleted so far
    now,           \* Date.now()
    calls,         \* number of calls made so far
    last,          \* the last call: operation, caller, arguments and outcome
    pc,            \* StepSpec: position of each caller inside join
    matchedUser,   \* StepSpec: join's local matchedUser of each caller
    seen,          \* StepSpec: number of sessions present when the caller verified
    verifyLog      \* StepSpec: for each session, `seen` of the join that created it

vars == <<isInQueue, chatSessions, matches, chatRequests, messages, deleted, now,
          calls, last,
          pc, matchedUser, seen, verifyLog>>

stepVars == <<pc, matchedUser, seen, verifyLog>>

SessionIds == 1..Len(chatSessions)
MatchIds == 1..Len(matches)
RequestIds == 1..Len(chatRequests)

Min(S) == CHOOSE x \in S : \A y \in S : x <= y

Idle == \A u \in Users : pc[u] = "idle"

\* A call is accepted while the budget of calls lasts.
BeginCall == Idle /\ calls < MaxCalls /\ calls' = calls + 1

\* ----------------------------------------------------------------- queries

\* The participant test left out.
IsParticipantAlways(u, s) == TRUE

\* makeDecision line 30, skipToReveal line 147: the caller is user1Id or user2Id
IsParticipant(u, s) == chatSessions[s].user1Id = u \/ chatSessions[s].user2Id = u

\* chatSessions filtered by (user1Id = u or user2Id = u) and status = "active"
ActiveSessionsOf(u) ==
    {s \in SessionIds : IsParticipant(u, s) /\ chatSessions[s].status = "active"}

\* .first() of that query: the oldest such session, or null (0)
FirstActiveSessionOf(u) ==
    IF ActiveSessionsOf(u) = {} THEN 0 ELSE Min(ActiveSessionsOf(u))

\* users.withIndex("by_queue", isInQueue = true).collect()
WaitingUsers == {x \in Users : isInQueue[x]}

\* Nobody found in the queue.
FindMatchedUserNone(u) == 0

\* The caller found in the queue.
FindMatchedUserSelf(u) == IF isInQueue[u] THEN u ELSE 0

\* The caller not excluded from the candidates.
FindMatchedUserAny(u) ==
    IF WaitingUsers = {} THEN 0 ELSE Min(WaitingUsers)

\* waitingUsers.find((u) => u._id !== user._id): first in index order, or null (0)
FindMatchedUser(u) ==
    IF WaitingUsers \ {u} = {} THEN 0 ELSE Min(WaitingUsers \ {u})

Throw(op, u, arg, msg) ==
    [op |-> op, user |-> u, arg |-> arg, ok |-> FALSE, error |-> msg]

Return(op, u, arg, res) ==
    [op |-> op, user |-> u, arg |-> arg, ok |-> TRUE, result |-> res]

\* A return, noting what the call found in the database (a history record for
\* the properties below; it is no part of the value returned to the client).
ReturnNoting(op, u, arg, res, found) ==
    [op |-> op, user |-> u, arg |-> arg, ok |-> TRUE, result |-> res, found |-> found]

\* The check for an active session of the caller left out.
existingActiveSessionNone(u) == 0

\* The q.or of the filter reduced to its user1Id half.
existingActiveSessionUser1Only(u) ==
    LET S == {s \in SessionIds : chatSessions[s].user1Id = u
                                  /\ chatSessions[s].status = "active"}
    IN IF S = {} THEN 0 ELSE Min(S)

\* join lines 253-265: the caller's existingActiveSession (0 is null)
existingActiveSession(u) == FirstActiveSessionOf(u)

\* The verification of the candidate left out.
matchedUserActiveSessionNone(m) == 0

\* The q.or of the filter reduced to its user1Id half.
matchedUserActiveSessionUser1Only(m) ==
    LET S == {s \in SessionIds : chatSessions[s].user1Id = m
                                  /\ chatSessions[s].status = "active"}
    IN IF S = {} THEN 0 ELSE Min(S)

\* join lines 286-299: the candidate's matchedUserActiveSession (0 is null)
matchedUserActiveSession(m) == FirstActiveSessionOf(m)

\* The session inserted without its deadline.
NewSessionNoDeadline(u1, u2) ==
    [user1Id |-> u1, user2Id |-> u2,
     phase |-> "speed_dating", status |-> "active",
     startedAt |-> now, speedDatingEndsAt |-> Undefined,
     endedAt |-> Undefined,
     user1WantsContinue |-> Undefined, user2WantsContinue |-> Undefined,
     user1WantsSkip |-> Undefined, user2WantsSkip |-> Undefined]

\* join lines 314-323: the inserted session (Date.now() is fixed within a mutation)
NewSession(u1, u2) ==
    [user1Id |-> u1, user2Id |-> u2,
     phase |-> "speed_dating", status |-> "active",
     startedAt |-> now, speedDatingEndsAt |-> Some(now + FifteenMinutes),
     endedAt |-> Undefined,
     user1WantsContinue |-> Undefined, user2WantsContinue |-> Undefined,
     user1WantsSkip |-> Undefined, user2WantsSkip |-> Undefined]

\* ------------------------------------------------------------------- queue

\* queue.join as one transaction
join(u) ==
    /\ BeginCall
    /\ IF existingActiveSession(u) # 0
       THEN /\ last' = Throw("join", u, <<>>, "AlreadyInActiveSession")
            /\ UNCHANGED <<isInQueue, chatSessions>>
       ELSE LET m == FindMatchedUser(u) IN
            IF m # 0
            THEN IF matchedUserActiveSession(m) # 0
                 THEN /\ isInQueue' = [isInQueue EXCEPT ![m] = FALSE, ![u] = TRUE]
                      /\ last' = ReturnNoting("join", u, <<>>,
                                    [matched |-> FALSE, chatSessionId |-> 0],
                                    [matchedUser |-> m])
                      /\ UNCHANGED chatSessions
                 ELSE /\ Len(chatSessions) < MaxSessions
                      /\ isInQueue' = [isInQueue EXCEPT ![m] = FALSE, ![u] = FALSE]
                      /\ chatSessions' = Append(chatSessions, NewSession(u, m))
                      /\ last' = Return("join", u, <<>>,
                                    [matched |-> TRUE,
                                     chatSessionId |-> Len(chatSessions) + 1])
            ELSE /\ isInQueue' = [isInQueue EXCEPT ![u] = TRUE]
                 /\ last' = ReturnNoting("join", u, <<>>,
                               [matched |-> FALSE, chatSessionId |-> 0],
                               [matchedUser |-> 0, wasInQueue |-> isInQueue[u]])
                 /\ UNCHANGED chatSessions
    /\ UNCHANGED <<deleted, matches, chatRequests, messages, now, stepVars>>

\* The flag inverted in place of cleared.
ToggleQueueFlag(u) == [isInQueue EXCEPT ![u] = ~isInQueue[u]]

\* leave line 357: patch(user._id, { isInQueue: false })
ClearQueueFlag(u) == [isInQueue EXCEPT ![u] = FALSE]

\* queue.leave
leave(u) ==
    /\ BeginCall
    /\ isInQueue' = ClearQueueFlag(u)
    /\ last' = ReturnNoting("leave", u, <<>>, [success |-> TRUE],
                  [again |-> last.op = "leave" /\ last.user = u])
    /\ UNCHANGED <<deleted, chatSessions, matches, chatRequests, messages, now, stepVars>>

\* The q.or of the filter reduced to its user1Id half.
statusUser1Only(u) ==
    IF existingActiveSessionUser1Only(u) # 0
    THEN [userExists |-> TRUE, inQueue |-> FALSE, matched |-> TRUE,
          chatSessionId |-> existingActiveSessionUser1Only(u)]
    ELSE [userExists |-> TRUE, inQueue |-> isInQueue[u], matched |-> FALSE,
          chatSessionId |-> 0]

\* queue.status (a query: no state change); the value it returns to u
status(u) ==
    IF FirstActiveSessionOf(u) # 0
    THEN [userExists |-> TRUE, inQueue |-> FALSE, matched |-> TRUE,
          chatSessionId |-> FirstActiveSessionOf(u)]
    ELSE [userExists |-> TRUE, inQueue |-> isInQueue[u], matched |-> FALSE,
          chatSessionId |-> 0]

\* --------------------------------------------------------------- decisions

\* The deletion loop left out.
KeepMessagesOf(s) == messages

\* messages.withIndex("by_chat_session", chatSessionId = s) deleted one by one
DeleteMessagesOf(s) == SelectSeq(messages, LAMBDA msg : msg.chatSessionId # s)

\* The match inserted with the first participant in both places.
NewMatchOneSided(s) ==
    [user1Id |-> chatSessions[s].user1Id, user2Id |-> chatSessions[s].user1Id,
     chatSessionId |-> s, matchedAt |-> now]

\* The match inserted without its chatSessionId.
NewMatchUnlinked(s) ==
    [user1Id |-> chatSessions[s].user1Id, user2Id |-> chatSessions[s].user2Id,
     chatSessionId |-> 0, matchedAt |-> now]

\* makeDecision lines 74-79, skipToReveal lines 183-188: the inserted match
NewMatch(s) ==
    [user1Id |-> chatSessions[s].user1Id, user2Id |-> chatSessions[s].user2Id,
     chatSessionId |-> s, matchedAt |-> now]

\* The decisions never taken as complete.
BothDecidedNever(user1Decision, user2Decision) == FALSE

\* || in place of &&.
EitherDecided(user1Decision, user2Decision) ==
    IsDefined(user1Decision) \/ IsDefined(user2Decision)

\* makeDecision lines 67 and 118: both decision slots are set
BothDecided(user1Decision, user2Decision) ==
    IsDefined(user1Decision) /\ IsDefined(user2Decision)

\* || in place of &&.
EitherContinue(user1Decision, user2Decision) ==
    Truthy(user1Decision) \/ Truthy(user2Decision)

\* makeDecision line 68: user1Decision && user2Decision
BothContinue(user1Decision, user2Decision) ==
    Truthy(user1Decision) /\ Truthy(user2Decision)

\* The decision written into the other participant's slot.
RecordDecisionSwapped(chatSession, isUser1, wantsToContinue) ==
    IF isUser1
    THEN [chatSession EXCEPT !.status = "waiting_reveal",
                             !.user2WantsContinue = Some(wantsToContinue)]
    ELSE [chatSession EXCEPT !.status = "waiting_reveal",
                             !.user1WantsContinue = Some(wantsToContinue)]

\* makeDecision lines 37-51: the session after the patch of `updates`
RecordDecision(chatSession, isUser1, wantsToContinue) ==
    IF isUser1
    THEN [chatSession EXCEPT !.status = "waiting_reveal",
                             !.user1WantsContinue = Some(wantsToContinue)]
    ELSE [chatSession EXCEPT !.status = "waiting_reveal",
                             !.user2WantsContinue = Some(wantsToContinue)]

\* Only the first participant taken out of the queue.
ClearQueueFlagUser1Only(chatSession) ==
    [isInQueue EXCEPT ![chatSession.user1Id] = FALSE]

\* makeDecision lines 95-97: both participants leave the queue
ClearQueueFlags(chatSession) ==
    [isInQueue EXCEPT ![chatSession.user1Id] = FALSE,
                      ![chatSession.user2Id] = FALSE]

\* decisions.makeDecision
makeDecision(u, s, wantsToContinue) ==
    /\ BeginCall
    /\ s \in SessionIds
    /\ LET arg == <<s, wantsToContinue>>
           chatSession == chatSessions[s]
           isUser1 == chatSession.user1Id = u
           updatedSession == RecordDecision(chatSession, isUser1, wantsToContinue)
           user1Decision == IF isUser1 THEN Some(wantsToContinue)
                                       ELSE updatedSession.user1WantsContinue
           user2Decision == IF isUser1 THEN updatedSession.user2WantsContinue
                                       ELSE Some(wantsToContinue)
           bothDecided == BothDecided(user1Decision, user2Decision)
       IN
       IF ~IsParticipant(u, s)
       THEN /\ last' = Throw("makeDecision", u, arg, "Unauthorized")
            /\ UNCHANGED <<isInQueue, chatSessions, matches, messages>>
       ELSE IF ~bothDecided
       THEN /\ chatSessions' = [chatSessions EXCEPT ![s] = updatedSession]
            /\ last' = Return("makeDecision", u, arg,
                          [status |-> "waiting_reveal", phase |-> "speed_dating",
                           matchCreated |-> FALSE, bothDecided |-> FALSE])
            /\ UNCHANGED <<isInQueue, matches, messages>>
       ELSE IF BothContinue(user1Decision, user2Decision)
       THEN /\ Len(matches) < MaxMatches
            /\ matches' = Append(matches, NewMatch(s))
            /\ chatSessions' = [chatSessions EXCEPT ![s] =
                   [updatedSession EXCEPT !.status = "active", !.phase = "extended"]]
            /\ last' = Return("makeDecision", u, arg,
                          [status |-> "active", phase |-> "extended",
                           matchCreated |-> TRUE, bothDecided |-> TRUE])
            /\ UNCHANGED <<isInQueue, messages>>
       ELSE /\ chatSessions' = [chatSessions EXCEPT ![s] =
                   [updatedSession EXCEPT !.status = "ended", !.endedAt = Some(now)]]
            /\ isInQueue' = ClearQueueFlags(chatSession)
            /\ messages' = DeleteMessagesOf(s)
            /\ last' = ReturnNoting("makeDecision", u, arg,
                          [status |-> "ended", phase |-> "speed_dating",
                           matchCreated |-> FALSE, bothDecided |-> TRUE],
                          [inQueue |-> {x \in {chatSession.user1Id, chatSession.user2Id} :
                                           isInQueue[x]}])
            /\ UNCHANGED matches
    /\ UNCHANGED <<deleted, chatRequests, now, stepVars>>

\* || in place of &&.
EitherSkipped(user1Skip, user2Skip) == user1Skip \/ user2Skip

\* skipToReveal lines 181 and 201: user1Skip && user2Skip
BothSkipped(user1Skip, user2Skip) == user1Skip /\ user2Skip

\* The session's status tested in place of its phase.
IsActiveStatus(chatSession) == chatSession.status = "active"

\* The speed-dating deadline enforced by the server.
InSpeedDatingBeforeDeadline(chatSession) ==
    /\ chatSession.phase = "speed_dating"
    /\ chatSession.speedDatingEndsAt # Undefined
    /\ now <= chatSession.speedDatingEndsAt[1]

\* skipToReveal line 152: the session is in the speed_dating phase
InSpeedDating(chatSession) == chatSession.phase = "speed_dating"

\* user1Skip counted twice.
SkipCountUser1Twice(user1Skip, user2Skip) ==
    (IF user1Skip THEN 1 ELSE 0) + (IF user1Skip THEN 1 ELSE 0)

\* skipToReveal line 203: (user1Skip ? 1 : 0) + (user2Skip ? 1 : 0)
SkipCount(user1Skip, user2Skip) ==
    (IF user1Skip THEN 1 ELSE 0) + (IF user2Skip THEN 1 ELSE 0)

\* decisions.skipToReveal
skipToReveal(u, s) ==
    /\ BeginCall
    /\ s \in SessionIds
    /\ LET chatSession == chatSessions[s]
           isUser1 == chatSession.user1Id = u
           updatedSession ==
               IF isUser1 THEN [chatSession EXCEPT !.user1WantsSkip = Some(TRUE)]
                          ELSE [chatSession EXCEPT !.user2WantsSkip = Some(TRUE)]
           user1Skip == IF isUser1 THEN TRUE ELSE Truthy(updatedSession.user1WantsSkip)
           user2Skip == IF isUser1 THEN Truthy(updatedSession.user2WantsSkip) ELSE TRUE
           skipCount == SkipCount(user1Skip, user2Skip)
       IN
       IF ~IsParticipant(u, s)
       THEN /\ last' = Throw("skipToReveal", u, s, "Unauthorized")
            /\ UNCHANGED <<chatSessions, matches>>
       ELSE IF ~InSpeedDating(chatSession)
       THEN /\ last' = Throw("skipToReveal", u, s, "InvalidPhase")
            /\ UNCHANGED <<chatSessions, matches>>
       ELSE IF BothSkipped(user1Skip, user2Skip)
       THEN /\ Len(matches) < MaxMatches
            /\ matches' = Append(matches, NewMatch(s))
            /\ chatSessions' = [chatSessions EXCEPT ![s] =
                   [updatedSession EXCEPT !.status = "active", !.phase = "extended"]]
            /\ last' = Return("skipToReveal", u, s,
                          [bothSkipped |-> TRUE, matchCreated |-> TRUE,
                           skipCount |-> skipCount])
       ELSE /\ chatSessions' = [chatSessions EXCEPT ![s] = updatedSession]
            /\ last' = ReturnNoting("skipToReveal", u, s,
                          [bothSkipped |-> FALSE, matchCreated |-> FALSE,
                           skipCount |-> skipCount],
                          [wantsSkip |-> IF isUser1 THEN chatSession.user1WantsSkip
                                                    ELSE chatSession.user2WantsSkip])
            /\ UNCHANGED matches
    /\ UNCHANGED <<deleted, isInQueue, chatRequests, messages, now, stepVars>>

\* ------------------------------------------------------------ chat requests

\* The check for a pending request left out.
PendingRequestsOfNone(m) == {}

\* chatRequests filtered by matchId = m and status = "pending"
PendingRequestsOf(m) ==
    {r \in RequestIds : chatRequests[r].matchId = m /\ chatRequests[r].status = "pending"}

\* The pair looked up in the order of the match only.
ActiveSessionsBetweenOrdered(a, b) ==
    {s \in SessionIds :
        /\ chatSessions[s].user1Id = a /\ chatSessions[s].user2Id = b
        /\ chatSessions[s].status = "active"}

\* chatSessions between a and b in either order with status = "active"
ActiveSessionsBetween(a, b) ==
    {s \in SessionIds :
        /\ \/ chatSessions[s].user1Id = a /\ chatSessions[s].user2Id = b
           \/ chatSessions[s].user1Id = b /\ chatSessions[s].user2Id = a
        /\ chatSessions[s].status = "active"}

\* send lines 607-613: the inserted request
NewRequest(u, toUserId, m) ==
    [fromUserId |-> u, toUserId |-> toUserId, matchId |-> m,
     status |-> "pending", createdAt |-> now, respondedAt |-> Undefined]

\* chatRequests.send
send(u, m) ==
    /\ BeginCall
    /\ m \in MatchIds
    /\ LET match == matches[m]
           toUserId == IF match.user1Id = u THEN match.user2Id ELSE match.user1Id
       IN
       IF match.user1Id # u /\ match.user2Id # u
       THEN /\ last' = Throw("send", u, m, "Unauthorized")
            /\ UNCHANGED chatRequests
       ELSE IF PendingRequestsOf(m) # {}
       THEN /\ last' = Throw("send", u, m, "A request is already pending for this match")
            /\ UNCHANGED chatRequests
       ELSE IF ActiveSessionsBetween(match.user1Id, match.user2Id) # {}
       THEN /\ last' = Throw("send", u, m,
                          "You already have an active chat with this person")
            /\ UNCHANGED chatRequests
       ELSE /\ Len(chatRequests) < MaxRequests
            /\ chatRequests' = Append(chatRequests, NewRequest(u, toUserId, m))
            /\ last' = Return("send", u, m, [requestId |-> Len(chatRequests) + 1])
    /\ UNCHANGED <<deleted, isInQueue, chatSessions, matches, messages, now, stepVars>>

\* The status check left out.
IsPendingAlways(request) == TRUE

\* accept line 701: the request is still pending
IsPending(request) == request.status = "pending"

\* The reopened session inserted with the sender in both places.
ReconnectSessionWithSelf(request) ==
    [user1Id |-> request.fromUserId, user2Id |-> request.fromUserId,
     phase |-> "extended", status |-> "active",
     startedAt |-> now, speedDatingEndsAt |-> Undefined,
     endedAt |-> Undefined,
     user1WantsContinue |-> Undefined, user2WantsContinue |-> Undefined,
     user1WantsSkip |-> Undefined, user2WantsSkip |-> Undefined]

\* The reopened session inserted as a speed-dating round.
ReconnectSessionSpeedDating(request) == NewSession(request.fromUserId, request.toUserId)

\* accept lines 710-716: the inserted session (no speedDatingEndsAt)
ReconnectSession(request) ==
    [user1Id |-> request.fromUserId, user2Id |-> request.toUserId,
     phase |-> "extended", status |-> "active",
     startedAt |-> now, speedDatingEndsAt |-> Undefined,
     endedAt |-> Undefined,
     user1WantsContinue |-> Undefined, user2WantsContinue |-> Undefined,
     user1WantsSkip |-> Undefined, user2WantsSkip |-> Undefined]

\* The match rewritten from the request along with its link.
RelinkMatchReordered(request, sessionId) ==
    [matches EXCEPT ![request.matchId].chatSessionId = sessionId,
                    ![request.matchId].user1Id = request.fromUserId,
                    ![request.matchId].user2Id = request.toUserId]

\* accept lines 719-721: the match points to the new session
RelinkMatch(request, sessionId) ==
    [matches EXCEPT ![request.matchId].chatSessionId = sessionId]

\* The response time stamped, the status left as it was.
DeclineRequestKeepsStatus(r) ==
    [chatRequests EXCEPT ![r].respondedAt = Some(now)]

\* decline lines 761-764: status declined, respondedAt now
DeclineRequest(r) ==
    [chatRequests EXCEPT ![r].status = "declined", ![r].respondedAt = Some(now)]

\* chatRequests.accept
accept(u, r) ==
    /\ BeginCall
    /\ r \in RequestIds
    /\ LET request == chatRequests[r] IN
       IF request.toUserId # u
       THEN /\ last' = Throw("accept", u, r, "Unauthorized")
            /\ UNCHANGED <<chatSessions, matches, chatRequests>>
       ELSE IF ~IsPending(request)
       THEN /\ last' = Throw("accept", u, r, "Request is no longer pending")
            /\ UNCHANGED <<chatSessions, matches, chatRequests>>
       ELSE /\ Len(chatSessions) < MaxSessions
            /\ chatSessions' = Append(chatSessions, ReconnectSession(request))
            /\ matches' = RelinkMatch(request, Len(chatSessions) + 1)
            /\ chatRequests' = [chatRequests EXCEPT ![r].status = "accepted",
                                                    ![r].respondedAt = Some(now)]
            /\ last' = Return("accept", u, r, [chatSessionId |-> Len(chatSessions) + 1])
    /\ UNCHANGED <<deleted, isInQueue, messages, now, stepVars>>

\* chatRequests.decline
decline(u, r) ==
    /\ BeginCall
    /\ r \in RequestIds
    /\ IF chatRequests[r].toUserId # u
       THEN /\ last' = Throw("decline", u, r, "Unauthorized")
            /\ UNCHANGED chatRequests
       ELSE /\ chatRequests' = DeclineRequest(r)
            /\ last' = Return("decline", u, r, [success |-> TRUE])
    /\ UNCHANGED <<deleted, isInQueue, chatSessions, matches, messages, now, stepVars>>

\* ----------------------------------------------------------- message store

\* messages.send (the chat page's sendMessage)
sendMessage(u, s) ==
    /\ BeginCall
    /\ s \in SessionIds
    /\ IF ~IsParticipant(u, s)
       THEN /\ last' = Throw("sendMessage", u, s, "Unauthorized")
            /\ UNCHANGED messages
       ELSE IF chatSessions[s].status # "active"
       THEN /\ last' = Throw("sendMessage", u, s, "NotActive")
            /\ UNCHANGED messages
       ELSE /\ Len(messages) < MaxMessages
            /\ messages' = Append(messages,
                   [chatSessionId |-> s, senderId |-> u, createdAt |-> now])
            /\ last' = Return("sendMessage", u, s, [success |-> TRUE])
    /\ UNCHANGED <<deleted, isInQueue, chatSessions, matches, chatRequests, now, stepVars>>

\* messages.leaveChat
leaveChat(u, s) ==
    /\ BeginCall
    /\ s \in SessionIds
    /\ IF ~IsParticipant(u, s)
       THEN /\ last' = Throw("leaveChat", u, s, "Unauthorized")
            /\ UNCHANGED <<chatSessions, messages>>
       ELSE /\ chatSessions' = [chatSessions EXCEPT ![s].status = "ended"]
            /\ messages' = DeleteMessagesOf(s)
            /\ last' = Return("leaveChat", u, s, [success |-> TRUE])
    /\ UNCHANGED <<deleted, isInQueue, matches, chatRequests, now, stepVars>>

\* ------------------------------------------------------------ user deletion

\* The documents of each table that have not been deleted.
LiveUsers == Users \ deleted.users
LiveSessionIds == SessionIds \ deleted.chatSessions
LiveMatchIds == MatchIds \ deleted.matches

\* deleteFromClerk step 1: the messages sent by the user are deleted.
DeleteMessagesSentBy(u) == SelectSeq(messages, LAMBDA msg : msg.senderId # u)

\* deleteFromClerk steps 2 and 3: the matches (by_user1, by_user2) and the
\* chat sessions (by_user1, by_user2) involving the user.
MatchesInvolving(u) ==
    {m \in LiveMatchIds : matches[m].user1Id = u \/ matches[m].user2Id = u}

SessionsInvolving(u) ==
    {s \in LiveSessionIds : chatSessions[s].user1Id = u \/ chatSessions[s].user2Id = u}

\* users.deleteFromClerk (internal mutation run by the Clerk webhook)
deleteFromClerk(u) ==
    /\ BeginCall
    /\ IF u \in deleted.users
       THEN /\ last' = Return("deleteFromClerk", u, <<>>, Undefined)
            /\ UNCHANGED <<isInQueue, messages, deleted>>
       ELSE /\ messages' = DeleteMessagesSentBy(u)
            /\ deleted' = [users |-> deleted.users \cup {u},
                           chatSessions |-> deleted.chatSessions \cup SessionsInvolving(u),
                           matches |-> deleted.matches \cup MatchesInvolving(u)]
            /\ isInQueue' = [isInQueue EXCEPT ![u] = FALSE]
            /\ last' = Return("deleteFromClerk", u, <<>>, Undefined)
    /\ UNCHANGED <<chatSessions, matches, chatRequests, now, stepVars>>

\* ------------------------------------------------------------ match history

\* Every linked session taken for an active chat.
HasActiveChatExists(match) == match.chatSessionId \in LiveSessionIds

\* list: chatSession?.status === "active"
HasActiveChat(match) ==
    /\ match.chatSessionId \in LiveSessionIds
    /\ chatSessions[match.chatSessionId].status = "active"

\* list: the first pending request of the match, 0 when there is none
PendingRequestOf(m) ==
    IF PendingRequestsOf(m) = {} THEN 0 ELSE Min(PendingRequestsOf(m))

\* list: the entry returned for one match; otherUser is the counterpart's
\* profile (its _id here), Undefined when the user document is gone
ListEntry(u, m) ==
    LET otherUserId == IF matches[m].user1Id = u THEN matches[m].user2Id
                                                 ELSE matches[m].user1Id
    IN  [_id |-> m,
         matchedAt |-> matches[m].matchedAt,
         chatSessionId |-> matches[m].chatSessionId,
         hasActiveChat |-> HasActiveChat(matches[m]),
         hasPendingRequest |-> PendingRequestOf(m) # 0,
         isRequestSender |-> /\ PendingRequestOf(m) # 0
                             /\ chatRequests[PendingRequestOf(m)].fromUserId = u,
         otherUser |-> IF otherUserId \in LiveUsers THEN Some(otherUserId)
                                                    ELSE Undefined]

\* matches.list (query): the caller's matches, newest first, without the
\* entries whose counterpart is gone
list(u) ==
    IF u \notin LiveUsers
    THEN [ok |-> FALSE, error |-> "User not found"]
    ELSE LET newestFirst == [i \in 1..Len(matches) |-> Len(matches) + 1 - i]
             mine == SelectSeq(newestFirst,
                               LAMBDA m : /\ m \in LiveMatchIds
                                          /\ \/ matches[m].user1Id = u
                                             \/ matches[m].user2Id = u)
             matchesWithProfiles == [i \in 1..Len(mine) |-> ListEntry(u, mine[i])]
         IN  [ok |-> TRUE,
              result |-> SelectSeq(matchesWithProfiles,
                                   LAMBDA e : IsDefined(e.otherUser))]

\* ------------------------------------------- join, one database call at a time

\* join lines 253-271: the caller's own active-session check
joinCheck(u) ==
    /\ pc[u] = "idle"
    /\ calls < MaxCalls
    /\ calls' = calls + 1
    /\ IF existingActiveSession(u) # 0
       THEN /\ last' = Throw("join", u, <<>>, "AlreadyInActiveSession")
            /\ UNCHANGED pc
       ELSE /\ pc' = [pc EXCEPT ![u] = "select"]
            /\ UNCHANGED last
    /\ UNCHANGED <<deleted, isInQueue, chatSessions, matches, chatRequests, messages, now,
                   matchedUser, seen, verifyLog>>

\* join lines 273-281: read the waiting users and pick the candidate
joinSelect(u) ==
    /\ pc[u] = "select"
    /\ matchedUser' = [matchedUser EXCEPT ![u] = FindMatchedUser(u)]
    /\ pc' = [pc EXCEPT ![u] = IF FindMatchedUser(u) # 0 THEN "claim" ELSE "enqueue"]
    /\ UNCHANGED <<deleted, isInQueue, chatSessions, matches, chatRequests, messages, now,
                   calls, last, seen, verifyLog>>

\* join line 284: the claim
joinClaim(u) ==
    /\ pc[u] = "claim"
    /\ isInQueue' = [isInQueue EXCEPT ![matchedUser[u]] = FALSE]
    /\ pc' = [pc EXCEPT ![u] = "verify"]
    /\ UNCHANGED <<deleted, chatSessions, matches, chatRequests, messages, now, calls, last,
                   matchedUser, seen, verifyLog>>

\* join lines 286-301: the verification
joinVerify(u) ==
    /\ pc[u] = "verify"
    /\ seen' = [seen EXCEPT ![u] = Len(chatSessions)]
    /\ pc' = [pc EXCEPT ![u] = IF matchedUserActiveSession(matchedUser[u]) # 0
                               THEN "requeue" ELSE "unqueue"]
    /\ UNCHANGED <<deleted, isInQueue, chatSessions, matches, chatRequests, messages, now,
                   calls, last, matchedUser, verifyLog>>

\* join lines 302-308: the candidate is taken, the caller waits instead
joinRequeue(u) ==
    /\ pc[u] = "requeue"
    /\ isInQueue' = [isInQueue EXCEPT ![u] = TRUE]
    /\ last' = Return("join", u, <<>>, [matched |-> FALSE, chatSessionId |-> 0])
    /\ pc' = [pc EXCEPT ![u] = "idle"]
    /\ UNCHANGED <<deleted, chatSessions, matches, chatRequests, messages, now, calls,
                   matchedUser, seen, verifyLog>>

\* join line 312: the caller leaves the queue
joinUnqueue(u) ==
    /\ pc[u] = "unqueue"
    /\ isInQueue' = [isInQueue EXCEPT ![u] = FALSE]
    /\ pc' = [pc EXCEPT ![u] = "insert"]
    /\ UNCHANGED <<deleted, chatSessions, matches, chatRequests, messages, now, calls, last,
                   matchedUser, seen, verifyLog>>

\* join lines 314-328: the session is inserted
joinInsert(u) ==
    /\ pc[u] = "insert"
    /\ Len(chatSessions) < MaxSessions
    /\ chatSessions' = Append(chatSessions, NewSession(u, matchedUser[u]))
    /\ verifyLog' = Append(verifyLog, seen[u])
    /\ last' = Return("join", u, <<>>,
                  [matched |-> TRUE, chatSessionId |-> Len(chatSessions) + 1])
    /\ pc' = [pc EXCEPT ![u] = "idle"]
    /\ UNCHANGED <<deleted, isInQueue, matches, chatRequests, messages, now, calls,
                   matchedUser, seen>>

\* join lines 329-337: nobody is waiting
joinEnqueue(u) ==
    /\ pc[u] = "enqueue"
    /\ isInQueue' = [isInQueue EXCEPT ![u] = TRUE]
    /\ last' = Return("join", u, <<>>, [matched |-> FALSE, chatSessionId |-> 0])
    /\ pc' = [pc EXCEPT ![u] = "idle"]
    /\ UNCHANGED <<deleted, chatSessions, matches, chatRequests, messages, now, calls,
                   matchedUser, seen, verifyLog>>

\* The time that passes in one Tick: more than a speed-dating round.
TickLength == FifteenMinutes + 1

\* Time passes between calls.
Tick ==
    /\ Idle
    /\ now < MaxTicks * TickLength
    /\ now' = now + TickLength
    /\ UNCHANGED <<deleted, isInQueue, chatSessions, matches, chatRequests, messages, calls,
                   last, stepVars>>

\* ------------------------------------------------------------ specification

Init ==
    /\ isInQueue = [u \in Users |-> FALSE]
    /\ chatSessions = <<>>
    /\ matches = <<>>
    /\ chatRequests = <<>>
    /\ messages = <<>>
    /\ deleted = [users |-> {}, chatSessions |-> {}, matches |-> {}]
    /\ now = 0
    /\ calls = 0
    /\ last = [op |-> "none"]
    /\ pc = [u \in Users |-> "idle"]
    /\ matchedUser = [u \in Users |-> 0]
    /\ seen = [u \in Users |-> 0]
    /\ verifyLog = <<>>

StepNext ==
    \/ \E u \in Users : joinCheck(u)
    \/ \E u \in Users : joinSelect(u)
    \/ \E u \in Users : joinClaim(u)
    \/ \E u \in Users : joinVerify(u)
    \/ \E u \in Users : joinRequeue(u)
    \/ \E u \in Users : joinUnqueue(u)
    \/ \E u \in Users : joinInsert(u)
    \/ \E u \in Users : joinEnqueue(u)

StepSpec == Init /\ [][StepNext]_vars

JoinNext ==
    \/ \E u \in Users : join(u)
    \/ Tick

JoinSpec == Init /\ [][JoinNext]_vars

Next ==
    \/ \E u \in Users : join(u)
    \/ \E u \in Users : leave(u)
    \/ \E u \in Users, s \in SessionIds, w \in BOOLEAN : makeDecision(u, s, w)
    \/ \E u \in Users, s \in SessionIds : skipToReveal(u, s)
    \/ \E u \in Users, m \in MatchIds : send(u, m)
    \/ \E u \in Users, r \in RequestIds : accept(u, r)
    \/ \E u \in Users, r \in RequestIds : decline(u, r)
    \/ \E u \in Users, s \in SessionIds : sendMessage(u, s)
    \/ \E u \in Users, s \in SessionIds : leaveChat(u, s)
    \/ Tick

Spec == Init /\ [][Next]_vars

\* The state after join(1); join(2) and two skip votes on the session, left
\* by leaveChat or still open: users 1 and 2 are matched.
RequestInit ==
    /\ isInQueue = [u \in Users |-> FALSE]
    /\ \E left \in BOOLEAN :
          chatSessions =
              << [user1Id |-> 2, user2Id |-> 1,
                  phase |-> "extended",
                  status |-> IF left THEN "ended" ELSE "active",
                  startedAt |-> 0, speedDatingEndsAt |-> Some(FifteenMinutes),
                  endedAt |-> Undefined,
                  user1WantsContinue |-> Undefined, user2WantsContinue |-> Undefined,
                  user1WantsSkip |-> Some(TRUE), user2WantsSkip |-> Some(TRUE)] >>
    /\ matches = << [user1Id |-> 2, user2Id |-> 1, chatSessionId |-> 1, matchedAt |-> 0] >>
    /\ chatRequests = <<>>
    /\ messages = <<>>
    /\ deleted = [users |-> {}, chatSessions |-> {}, matches |-> {}]
    /\ now = 0
    /\ calls = 0
    /\ last = [op |-> "none"]
    /\ pc = [u \in Users |-> "idle"]
    /\ matchedUser = [u \in Users |-> 0]
    /\ seen = [u \in Users |-> 0]
    /\ verifyLog = <<>>

\* The operations on a matched pair: the request protocol, leaving a chat, time.
RequestNext ==
    \/ \E u \in Users, m \in MatchIds : send(u, m)
    \/ \E u \in Users, r \in RequestIds : accept(u, r)
    \/ \E u \in Users, r \in RequestIds : decline(u, r)
    \/ \E u \in Users, s \in SessionIds : leaveChat(u, s)
    \/ Tick

RequestSpec == RequestInit /\ [][RequestNext]_vars

\* No document has been deleted yet.
NothingDeleted == deleted.users = {}

\* A matched pair chatting, leaving and reconnecting until accounts are
\* deleted: the handlers are called up to the first deletion, deletions
\* follow one another.
DeleteNext ==
    \/ NothingDeleted /\ \E u \in Users, m \in MatchIds : send(u, m)
    \/ NothingDeleted /\ \E u \in Users, r \in RequestIds : accept(u, r)
    \/ NothingDeleted /\ \E u \in Users, r \in RequestIds : decline(u, r)
    \/ NothingDeleted /\ \E u \in Users, s \in SessionIds : sendMessage(u, s)
    \/ NothingDeleted /\ \E u \in Users, s \in SessionIds : leaveChat(u, s)
    \/ \E u \in Users : deleteFromClerk(u)

DeleteSpec == RequestInit /\ [][DeleteNext]_vars

\* --------------------------------------------------------------- properties

\* The step from the current state to the next is the call op(u, arg).
IsCall(op, u, arg) ==
    /\ calls' = calls + 1
    /\ last'.op = op
    /\ last'.user = u
    /\ last'.arg = arg

\* The decision slot of participant u in session record sess, and the other slot.
OwnDecision(sess, u) ==
    IF sess.user1Id = u THEN sess.user1WantsContinue ELSE sess.user2WantsContinue
OtherDecision(sess, u) ==
    IF sess.user1Id = u THEN sess.user2WantsContinue ELSE sess.user1WantsContinue

MessagesOf(s) == {i \in 1..Len(messages) : messages[i].chatSessionId = s}

\* C1: after any sequence of join transactions from the empty state, no user
\* participates in two active sessions and every active session pairs two
\* different users.
C1_NoDoublePairing ==
    /\ \A u \in Users : Cardinality(ActiveSessionsOf(u)) <= 1
    /\ \A s \in SessionIds :
          chatSessions[s].status = "active" =>
             /\ chatSessions[s].user1Id \in Users
             /\ chatSessions[s].user2Id \in Users
             /\ chatSessions[s].user1Id # chatSessions[s].user2Id

\* A pair is in an active session, and a join of one of its members was refused.
C1_Witness ==
    /\ last.op = "join"
    /\ ~last.ok
    /\ \E s \in SessionIds : chatSessions[s].status = "active" /\ IsParticipant(last.user, s)

C3_AtMostOneActiveSessionPerUser ==
    \A u \in Users : \A s1, s2 \in ActiveSessionsOf(u) : s1 = s2

\* C4: each unordered pair of users has at most one active session.
C4_AtMostOneActiveSessionPerPair ==
    \A a, b \in Users : \A s1, s2 \in ActiveSessionsBetween(a, b) : s1 = s2

\* C5: on a session created by join, makeDecision(true) by a participant while
\* no slot is set returns bothDecided false; makeDecision(true) by the other
\* participant while only the first slot is set (to true) returns bothDecided
\* true and matchCreated true, appends exactly one Match that links the
\* session, and leaves the session active in phase extended.
C5_MutualContinue ==
    [][\A u \in Users, s \in SessionIds :
         (/\ IsCall("makeDecision", u, <<s, TRUE>>)
          /\ IsParticipant(u, s)
          /\ IsDefined(chatSessions[s].speedDatingEndsAt)
          /\ ~IsDefined(OwnDecision(chatSessions[s], u)))
         => /\ last'.ok
            /\ ~IsDefined(OtherDecision(chatSessions[s], u))
                 => /\ ~last'.result.bothDecided
                    /\ matches' = matches
            /\ OtherDecision(chatSessions[s], u) = Some(TRUE)
                 => /\ last'.result.bothDecided
                    /\ last'.result.matchCreated
                    /\ Len(matches') = Len(matches) + 1
                    /\ SubSeq(matches', 1, Len(matches)) = matches
                    /\ matches'[Len(matches')].chatSessionId = s
                    /\ chatSessions'[s].phase = "extended"
                    /\ chatSessions'[s].status = "active"
      ]_vars

\* Two joins, then two makeDecision(true): the second created the Match.
C5_Witness ==
    /\ calls = 4
    /\ last.op = "makeDecision"
    /\ last.ok
    /\ last.result.bothDecided
    /\ last.result.matchCreated
    /\ Len(matches) = 1
    /\ matches[1].chatSessionId = last.arg[1]

\* C6: makeDecision by a participant whose slot is unset, while the other slot
\* is set and the two decisions are not both true, returns bothDecided true
\* and matchCreated false, ends the session with endedAt set, creates no Match
\* and leaves no Message of the session.
C6_Conflict ==
    [][\A u \in Users, s \in SessionIds, w \in BOOLEAN :
         (/\ IsCall("makeDecision", u, <<s, w>>)
          /\ IsParticipant(u, s)
          /\ ~IsDefined(OwnDecision(chatSessions[s], u))
          /\ IsDefined(OtherDecision(chatSessions[s], u))
          /\ ~(w /\ OtherDecision(chatSessions[s], u) = Some(TRUE)))
         => /\ last'.ok
            /\ last'.result.bothDecided
            /\ ~last'.result.matchCreated
            /\ chatSessions'[s].status = "ended"
            /\ IsDefined(chatSessions'[s].endedAt)
            /\ matches' = matches
            /\ \A i \in 1..Len(messages') : messages'[i].chatSessionId # s
      ]_vars

\* Two joins, a message, then two opposed decisions: the session ended.
C6_Witness ==
    /\ calls = 5
    /\ last.op = "makeDecision"
    /\ last.ok
    /\ last.result.bothDecided
    /\ ~last.result.matchCreated
    /\ chatSessions[last.arg[1]].status = "ended"
    /\ chatSessions[last.arg[1]].user1WantsContinue
          # chatSessions[last.arg[1]].user2WantsContinue
    /\ messages = <<>>
    /\ matches = <<>>

\* C7: a session whose status is ended has no Message.
C7_EndedHasNoMessages ==
    \A s \in SessionIds : chatSessions[s].status = "ended" => MessagesOf(s) = {}

\* A participant tried to send a message to an ended session and was refused.
C7_Witness ==
    /\ last.op = "sendMessage"
    /\ ~last.ok
    /\ last.error = "NotActive"
    /\ chatSessions[last.arg].status = "ended"

\* C8: once a session's status is ended, no step changes its status or phase.
C8_EndedIsTerminal ==
    [][\A s \in SessionIds :
         chatSessions[s].status = "ended"
         => /\ chatSessions'[s].status = "ended"
            /\ chatSessions'[s].phase = chatSessions[s].phase
      ]_vars

\* C9: once both decision slots of a session are set, a makeDecision call by a
\* participant is rejected or creates no Match and leaves status and phase.
C9_RedecisionHarmless ==
    [][\A u \in Users, s \in SessionIds, w \in BOOLEAN :
         (/\ IsCall("makeDecision", u, <<s, w>>)
          /\ IsParticipant(u, s)
          /\ IsDefined(chatSessions[s].user1WantsContinue)
          /\ IsDefined(chatSessions[s].user2WantsContinue))
         => \/ ~last'.ok
            \/ /\ matches' = matches
               /\ chatSessions'[s].status = chatSessions[s].status
               /\ chatSessions'[s].phase = chatSessions[s].phase
      ]_vars

\* C10: a step that inserts a Match is a makeDecision or skipToReveal call on
\* the session the Match links, and after it both continue-decisions of that
\* session are true or both skip votes are true.
C10_MatchOnlyByMutualConsent ==
    [][Len(matches') > Len(matches)
         => /\ Len(matches') = Len(matches) + 1
            /\ last'.op \in {"makeDecision", "skipToReveal"}
            /\ LET m == matches'[Len(matches')]
                   sess == chatSessions'[m.chatSessionId]
               IN /\ last'.arg = IF last'.op = "makeDecision"
                                 THEN <<m.chatSessionId, TRUE>>
                                 ELSE m.chatSessionId
                  /\ \/ /\ sess.user1WantsContinue = Some(TRUE)
                        /\ sess.user2WantsContinue = Some(TRUE)
                     \/ /\ sess.user1WantsSkip = Some(TRUE)
                        /\ sess.user2WantsSkip = Some(TRUE)
      ]_vars

\* Two skip votes created a Match while no decision had been made.
C10_Witness ==
    /\ last.op = "skipToReveal"
    /\ last.ok
    /\ last.result.matchCreated
    /\ Len(matches) = 1
    /\ chatSessions[matches[1].chatSessionId].user1WantsContinue = Undefined
    /\ chatSessions[matches[1].chatSessionId].user2WantsContinue = Undefined

\* ------------------------------------------------- skip votes and refusals

\* The two participants of session record sess.
Participants(sess) == {sess.user1Id, sess.user2Id}

\* The skip slot of participant u in session record sess, and the other slot.
OwnSkip(sess, u) ==
    IF sess.user1Id = u THEN sess.user1WantsSkip ELSE sess.user2WantsSkip
OtherSkip(sess, u) ==
    IF sess.user1Id = u THEN sess.user2WantsSkip ELSE sess.user1WantsSkip

\* The participants of session record sess whose skip vote is set.
SkipVoters(sess) ==
    {x \in {sess.user1Id} : Truthy(sess.user1WantsSkip)}
        \cup {x \in {sess.user2Id} : Truthy(sess.user2WantsSkip)}

\* User x participates in a session whose status is active.
HasActiveSession(x) ==
    \E s \in SessionIds : /\ x \in Participants(chatSessions[s])
                          /\ chatSessions[s].status = "active"

\* C11: on a session in phase speed_dating, the skipCount that skipToReveal
\* returns is the number of distinct participants whose vote is recorded, and
\* is at most 2; a repeated skipToReveal by a user who has already voted,
\* while the other participant has not, returns the same skipCount (the
\* number of voters before the call) and changes neither the sessions nor
\* the matches.
C11_SkipCountCountsVoters ==
    [][\A u \in Users, s \in SessionIds :
          (/\ IsCall("skipToReveal", u, s)
           /\ last'.ok
           /\ chatSessions[s].phase = "speed_dating")
          => /\ last'.result.skipCount = Cardinality(SkipVoters(chatSessions'[s]))
             /\ last'.result.skipCount <= 2
             /\ (/\ Truthy(OwnSkip(chatSessions[s], u))
                 /\ ~Truthy(OtherSkip(chatSessions[s], u)))
                => /\ last'.result.skipCount = Cardinality(SkipVoters(chatSessions[s]))
                   /\ chatSessions' = chatSessions
                   /\ matches' = matches
      ]_vars

\* A participant who had already voted has voted again, alone: skipCount 1.
C11_Witness ==
    /\ last.op = "skipToReveal"
    /\ last.ok
    /\ ~last.result.bothSkipped
    /\ Truthy(last.found.wantsSkip)
    /\ last.result.skipCount = 1
    /\ chatSessions[last.arg].phase = "speed_dating"
    /\ SkipVoters(chatSessions[last.arg]) = {last.user}

\* C12: when a participant calls skipToReveal on a session in phase
\* speed_dating whose other participant has already voted, one match linking
\* the session is appended, the session becomes phase extended with status
\* active, and the call returns bothSkipped, matchCreated and skipCount 2;
\* when the other participant has not voted, phase and status stay as they
\* were and the matches are unchanged.
C12_SecondSkipReveals ==
    [][\A u \in Users, s \in SessionIds :
          (/\ IsCall("skipToReveal", u, s)
           /\ u \in Participants(chatSessions[s])
           /\ chatSessions[s].phase = "speed_dating")
          => IF Truthy(OtherSkip(chatSessions[s], u))
             THEN /\ Len(matches') = Len(matches) + 1
                  /\ SubSeq(matches', 1, Len(matches)) = matches
                  /\ matches'[Len(matches')].chatSessionId = s
                  /\ chatSessions'[s].phase = "extended"
                  /\ chatSessions'[s].status = "active"
                  /\ last'.ok
                  /\ last'.result = [bothSkipped |-> TRUE, matchCreated |-> TRUE,
                                     skipCount |-> 2]
             ELSE /\ chatSessions'[s].phase = chatSessions[s].phase
                  /\ chatSessions'[s].status = chatSessions[s].status
                  /\ matches' = matches
      ]_vars

\* The second vote has arrived: the session is extended and a match links it.
C12_Witness ==
    /\ last.op = "skipToReveal"
    /\ last.ok
    /\ last.result.bothSkipped
    /\ last.result.skipCount = 2
    /\ chatSessions[last.arg].phase = "extended"
    /\ chatSessions[last.arg].status = "active"
    /\ Len(matches) >= 1
    /\ matches[Len(matches)].chatSessionId = last.arg

\* C13: skipToReveal on a session whose phase is not speed_dating fails, and
\* a skipToReveal that fails leaves the sessions (skip votes, phase and
\* status included) and the matches unchanged.
C13_SkipOutsideSpeedDatingFails ==
    [][\A u \in Users, s \in SessionIds :
          IsCall("skipToReveal", u, s)
          => /\ (chatSessions[s].phase # "speed_dating" => ~last'.ok)
             /\ (~last'.ok => /\ chatSessions' = chatSessions
                              /\ matches' = matches)
      ]_vars

\* A participant's skip has been refused on an extended session.
C13_Witness ==
    /\ last.op = "skipToReveal"
    /\ ~last.ok
    /\ last.error = "InvalidPhase"
    /\ last.user \in Participants(chatSessions[last.arg])
    /\ chatSessions[last.arg].phase = "extended"

\* The call was refused as Unauthorized and wrote nothing.
RefusedUnauthorized ==
    /\ ~last'.ok
    /\ last'.error = "Unauthorized"
    /\ chatSessions' = chatSessions
    /\ matches' = matches
    /\ messages' = messages
    /\ isInQueue' = isInQueue

\* C14: makeDecision and skipToReveal called by a user who is neither user1Id
\* nor user2Id of the session fail with Unauthorized and leave the sessions,
\* the matches, the messages and every queue flag unchanged.
C14_OutsidersRefused ==
    [][\A u \in Users, s \in SessionIds :
          u \notin Participants(chatSessions[s])
          => /\ \A w \in BOOLEAN :
                    IsCall("makeDecision", u, <<s, w>>) => RefusedUnauthorized
             /\ IsCall("skipToReveal", u, s) => RefusedUnauthorized
      ]_vars

\* An outsider's decision has been refused on a session that holds a message,
\* while a queue flag is set.
C14_Witness ==
    /\ last.op = "makeDecision"
    /\ ~last.ok
    /\ last.error = "Unauthorized"
    /\ last.user \notin Participants(chatSessions[last.arg[1]])
    /\ MessagesOf(last.arg[1]) # {}
    /\ WaitingUsers # {}

\* C15: when a participant calls makeDecision on a session whose other
\* decision slot is unset, the caller's slot holds the decision, the status
\* is waiting_reveal, the call returns bothDecided false and matchCreated
\* false, and matches, messages and queue flags are unchanged.
C15_FirstDecisionWaits ==
    [][\A u \in Users, s \in SessionIds, w \in BOOLEAN :
          (/\ IsCall("makeDecision", u, <<s, w>>)
           /\ u \in Participants(chatSessions[s])
           /\ OtherDecision(chatSessions[s], u) = Undefined)
          => /\ OwnDecision(chatSessions'[s], u) = Some(w)
             /\ chatSessions'[s].status = "waiting_reveal"
             /\ last'.ok
             /\ ~last'.result.bothDecided
             /\ ~last'.result.matchCreated
             /\ matches' = matches
             /\ messages' = messages
             /\ isInQueue' = isInQueue
      ]_vars

\* A first decision has been recorded on a session that holds a message.
C15_Witness ==
    /\ last.op = "makeDecision"
    /\ last.ok
    /\ ~last.result.bothDecided
    /\ chatSessions[last.arg[1]].status = "waiting_reveal"
    /\ OwnDecision(chatSessions[last.arg[1]], last.user) = Some(last.arg[2])
    /\ OtherDecision(chatSessions[last.arg[1]], last.user) = Undefined
    /\ MessagesOf(last.arg[1]) # {}

\* C16: when makeDecision resolves a session to the conflict outcome (it
\* returns status ended), the queue flags of both participants are false in
\* the state it leaves, whatever they were before.
C16_ConflictClearsQueueFlags ==
    [][\A u \in Users, s \in SessionIds, w \in BOOLEAN :
          (/\ IsCall("makeDecision", u, <<s, w>>)
           /\ last'.ok
           /\ last'.result.status = "ended")
          => /\ chatSessions'[s].status = "ended"
             /\ ~isInQueue'[chatSessions[s].user1Id]
             /\ ~isInQueue'[chatSessions[s].user2Id]
      ]_vars

\* The conflict was resolved while a participant was in the queue.
C16_Witness ==
    /\ last.op = "makeDecision"
    /\ last.ok
    /\ last.result.status = "ended"
    /\ last.found.inQueue # {}
    /\ \A x \in Participants(chatSessions[last.arg[1]]) : ~isInQueue[x]

\* C17: join by a user who participates in a session with status active
\* fails with AlreadyInActiveSession and changes no queue flag and no session.
C17_JoinRefusedInActiveSession ==
    [][\A u \in Users :
          (IsCall("join", u, <<>>) /\ HasActiveSession(u))
          => /\ ~last'.ok
             /\ last'.error = "AlreadyInActiveSession"
             /\ isInQueue' = isInQueue
             /\ chatSessions' = chatSessions
      ]_vars

\* A join has been refused while another user waits in the queue.
C17_Witness ==
    /\ last.op = "join"
    /\ ~last.ok
    /\ last.error = "AlreadyInActiveSession"
    /\ HasActiveSession(last.user)
    /\ WaitingUsers # {}

\* C18: if a is the only user with the queue flag set and neither a nor the
\* caller b (b # a) participates in an active session, then join by b returns
\* matched with the id S of a newly inserted session whose participants are
\* a and b, both queue flags are false afterwards, and status() by a and by b
\* in the state it leaves reports matched, not inQueue, and chatSessionId S.
C18_SecondJoinerIsPaired ==
    [][\A a \in Users, b \in Users :
          (/\ a # b
           /\ WaitingUsers = {a}
           /\ ~HasActiveSession(a)
           /\ ~HasActiveSession(b)
           /\ IsCall("join", b, <<>>))
          => LET S == Len(chatSessions) + 1
                 report == [userExists |-> TRUE, inQueue |-> FALSE,
                            matched |-> TRUE, chatSessionId |-> S]
             IN /\ last'.ok
                /\ last'.result = [matched |-> TRUE, chatSessionId |-> S]
                /\ Len(chatSessions') = S
                /\ SubSeq(chatSessions', 1, S - 1) = chatSessions
                /\ Participants(chatSessions'[S]) = {a, b}
                /\ ~isInQueue'[a]
                /\ ~isInQueue'[b]
                /\ status(a)' = report
                /\ status(b)' = report
      ]_vars

\* The second call ever made is a join that was paired with the waiting user.
C18_Witness ==
    /\ calls = 2
    /\ last.op = "join"
    /\ last.ok
    /\ last.result.matched
    /\ Len(chatSessions) = 1
    /\ WaitingUsers = {}
    /\ \A x \in Participants(chatSessions[1]) :
           status(x) = [userExists |-> TRUE, inQueue |-> FALSE,
                        matched |-> TRUE, chatSessionId |-> 1]

\* C19: if no user other than the caller has the queue flag set and the
\* caller participates in no active session, join sets the caller's flag,
\* returns matched false, inserts no session and changes no other user's
\* flag (nor any other table).
C19_LoneJoinerWaits ==
    [][\A u \in Users :
          (/\ IsCall("join", u, <<>>)
           /\ ~HasActiveSession(u)
           /\ \A x \in Users \ {u} : ~isInQueue[x])
          => /\ last'.ok
             /\ last'.result = [matched |-> FALSE, chatSessionId |-> 0]
             /\ isInQueue'[u]
             /\ \A x \in Users \ {u} : isInQueue'[x] = isInQueue[x]
             /\ chatSessions' = chatSessions
             /\ UNCHANGED <<matches, chatRequests, messages>>
      ]_vars

\* With no session in the database, a join has left its caller alone in the queue.
C19_Witness ==
    /\ last.op = "join"
    /\ last.ok
    /\ ~last.result.matched
    /\ chatSessions = <<>>
    /\ WaitingUsers = {last.user}

\* C20: if the candidate join selects (the first waiting user other than the
\* caller) participates in an active session, join inserts no session,
\* leaves the candidate's queue flag false, sets the caller's flag and
\* returns matched false.
C20_BusyCandidateNotPaired ==
    [][\A u \in Users, m \in Users :
          (/\ IsCall("join", u, <<>>)
           /\ ~HasActiveSession(u)
           /\ m # u
           /\ isInQueue[m]
           /\ \A x \in Users \ {u} : isInQueue[x] => m <= x
           /\ HasActiveSession(m))
          => /\ chatSessions' = chatSessions
             /\ ~isInQueue'[m]
             /\ isInQueue'[u]
             /\ last'.ok
             /\ last'.result = [matched |-> FALSE, chatSessionId |-> 0]
      ]_vars

\* A join found its candidate in an active session: the candidate is out of
\* the queue, the caller is in it.
C20_Witness ==
    /\ last.op = "join"
    /\ last.ok
    /\ ~last.result.matched
    /\ "found" \in DOMAIN last
    /\ HasActiveSession(last.found.matchedUser)
    /\ ~isInQueue[last.found.matchedUser]
    /\ isInQueue[last.user]

\* ------------------------------------------- session creation and lifecycle

\* C21: a session inserted by join has phase speed_dating, status active, a
\* deadline equal to startedAt plus fifteen minutes, both decision slots
\* unset and both skip votes unset.
C21_JoinCreatesSpeedDatingSession ==
    [][\A u \in Users :
          (IsCall("join", u, <<>>) /\ Len(chatSessions') > Len(chatSessions))
          => LET created == chatSessions'[Len(chatSessions')] IN
             /\ Len(chatSessions') = Len(chatSessions) + 1
             /\ created.phase = "speed_dating"
             /\ created.status = "active"
             /\ created.speedDatingEndsAt = Some(created.startedAt + FifteenMinutes)
             /\ created.user1WantsContinue = Undefined
             /\ created.user2WantsContinue = Undefined
             /\ created.user1WantsSkip = Undefined
             /\ created.user2WantsSkip = Undefined
      ]_vars

\* A join made after time has passed has just inserted its session.
C21_Witness ==
    /\ last.op = "join"
    /\ last.ok
    /\ last.result.matched
    /\ now > 0
    /\ chatSessions[last.result.chatSessionId].startedAt = now
    /\ chatSessions[last.result.chatSessionId].speedDatingEndsAt
           = Some(now + FifteenMinutes)

C23_DeadlineNotEnforced ==
    [][\A s \in SessionIds :
          (chatSessions[s].status = "active" /\ chatSessions[s].phase = "speed_dating")
          => /\ chatSessions'[s] # chatSessions[s]
                => /\ calls' = calls + 1
                   /\ last'.ok
                   /\ last'.user \in Participants(chatSessions[s])
                   /\ \/ last'.op = "makeDecision" /\ last'.arg[1] = s
                      \/ last'.op = "skipToReveal" /\ last'.arg = s
                      \/ last'.op = "leaveChat" /\ last'.arg = s
             /\ \A u \in Participants(chatSessions[s]) :
                   /\ \A w \in BOOLEAN : IsCall("makeDecision", u, <<s, w>>) => last'.ok
                   /\ IsCall("skipToReveal", u, s) => last'.ok
      ]_vars

\* A first skip vote has been accepted after the deadline of a session that
\* is still in active(speed_dating).
C23_Witness ==
    /\ last.op = "skipToReveal"
    /\ last.ok
    /\ ~last.result.bothSkipped
    /\ last.found.wantsSkip = Undefined
    /\ chatSessions[last.arg].status = "active"
    /\ chatSessions[last.arg].phase = "speed_dating"
    /\ IsDefined(chatSessions[last.arg].speedDatingEndsAt)
    /\ now > chatSessions[last.arg].speedDatingEndsAt[1]

\* The transitions of (status, phase) the lifecycle allows.
SessionTransitions ==
    {<<"active", "speed_dating", "waiting_reveal", "speed_dating">>,
     <<"waiting_reveal", "speed_dating", "active", "extended">>,
     <<"waiting_reveal", "speed_dating", "ended", "speed_dating">>,
     <<"active", "speed_dating", "active", "extended">>,
     <<"active", "speed_dating", "ended", "speed_dating">>,
     <<"active", "extended", "ended", "extended">>}

\* C24: every step leaves the (status, phase) of every session as it was or
\* moves it along one of: active(speed_dating) to waiting_reveal,
\* waiting_reveal to active(extended), waiting_reveal to ended,
\* active(speed_dating) to active(extended), an active session to ended.
C24_OnlyLifecycleTransitions ==
    [][\A s \in SessionIds :
          \/ /\ chatSessions'[s].status = chatSessions[s].status
             /\ chatSessions'[s].phase = chatSessions[s].phase
          \/ <<chatSessions[s].status, chatSessions[s].phase,
               chatSessions'[s].status, chatSessions'[s].phase>> \in SessionTransitions
      ]_vars

\* ---------------------------------------------------------- request protocol

\* The pending requests of match m.
PendingFor(m) ==
    {r \in RequestIds : chatRequests[r].matchId = m /\ chatRequests[r].status = "pending"}

\* An active session exists between the two users of match m, in either order.
ActiveChatOf(m) ==
    \E s \in SessionIds :
        /\ Participants(chatSessions[s]) = {matches[m].user1Id, matches[m].user2Id}
        /\ chatSessions[s].status = "active"

\* C25: in every state each match has at most one pending request, and a
\* send for a match that has a pending request fails and leaves the requests
\* as they were.
C25_OnePendingRequestPerMatch ==
    /\ [](\A m \in MatchIds : Cardinality(PendingFor(m)) <= 1)
    /\ [][\A u \in Users, m \in MatchIds :
              (IsCall("send", u, m) /\ PendingFor(m) # {})
              => /\ ~last'.ok
                 /\ chatRequests' = chatRequests
         ]_vars

\* A participant's send has been refused because a request is pending.
C25_Witness ==
    /\ last.op = "send"
    /\ ~last.ok
    /\ last.error = "A request is already pending for this match"
    /\ last.user \in {matches[last.arg].user1Id, matches[last.arg].user2Id}
    /\ Cardinality(PendingFor(last.arg)) = 1

\* C26: accept of a pending request by its addressee inserts exactly one
\* session, whose participants are the request's fromUserId and toUserId,
\* with phase extended, status active and no deadline; it points the
\* request's match to that session and sets the request's status to accepted.
C26_AcceptReopensChat ==
    [][\A u \in Users, r \in RequestIds :
          (/\ IsCall("accept", u, r)
           /\ chatRequests[r].toUserId = u
           /\ chatRequests[r].status = "pending")
          => LET S == Len(chatSessions) + 1 IN
             /\ last'.ok
             /\ last'.result = [chatSessionId |-> S]
             /\ Len(chatSessions') = S
             /\ SubSeq(chatSessions', 1, S - 1) = chatSessions
             /\ Participants(chatSessions'[S])
                    = {chatRequests[r].fromUserId, chatRequests[r].toUserId}
             /\ chatSessions'[S].phase = "extended"
             /\ chatSessions'[S].status = "active"
             /\ chatSessions'[S].speedDatingEndsAt = Undefined
             /\ matches'[chatRequests[r].matchId].chatSessionId = S
             /\ chatRequests'[r].status = "accepted"
      ]_vars

\* A request has just been accepted: its match points to the new session.
C26_Witness ==
    /\ last.op = "accept"
    /\ last.ok
    /\ chatRequests[last.arg].status = "accepted"
    /\ last.result.chatSessionId = Len(chatSessions)
    /\ matches[chatRequests[last.arg].matchId].chatSessionId = Len(chatSessions)
    /\ chatSessions[Len(chatSessions)].phase = "extended"
    /\ chatSessions[Len(chatSessions)].status = "active"

\* C27: accept fails with Unauthorized when the caller is not the request's
\* toUserId and fails when the request's status is not pending; a failed
\* accept changes no session, match or request; and a request whose status is
\* not pending never becomes pending again, so it is accepted at most once.
C27_AcceptRefused ==
    [][/\ \A u \in Users, r \in RequestIds :
              IsCall("accept", u, r)
              => /\ chatRequests[r].toUserId # u
                    => (~last'.ok /\ last'.error = "Unauthorized")
                 /\ chatRequests[r].status # "pending" => ~last'.ok
                 /\ ~last'.ok => UNCHANGED <<chatSessions, matches, chatRequests>>
       /\ \A r \in RequestIds :
              chatRequests[r].status # "pending" => chatRequests'[r].status # "pending"
      ]_vars

\* The addressee's second accept of a request has been refused.
C27_Witness ==
    /\ last.op = "accept"
    /\ ~last.ok
    /\ last.error = "Request is no longer pending"
    /\ chatRequests[last.arg].toUserId = last.user
    /\ chatRequests[last.arg].status = "accepted"

\* C28: send fails when the caller is not a user of the match and fails when
\* an active session exists between the match's users in either order; a
\* failed send inserts no request; a successful send inserts exactly one
\* pending request from the caller to the match's other user; and send by a
\* user of the match succeeds when there is neither an active session between
\* the pair nor a pending request for the match.
C28_SendChecks ==
    [][\A u \in Users, m \in MatchIds :
          IsCall("send", u, m)
          => LET isUser == u \in {matches[m].user1Id, matches[m].user2Id}
                 other == IF matches[m].user1Id = u THEN matches[m].user2Id
                                                    ELSE matches[m].user1Id
                 R == Len(chatRequests) + 1
             IN /\ ~isUser => ~last'.ok
                /\ ActiveChatOf(m) => ~last'.ok
                /\ ~last'.ok => chatRequests' = chatRequests
                /\ last'.ok
                   => /\ Len(chatRequests') = R
                      /\ SubSeq(chatRequests', 1, R - 1) = chatRequests
                      /\ chatRequests'[R].status = "pending"
                      /\ chatRequests'[R].fromUserId = u
                      /\ chatRequests'[R].toUserId = other
                      /\ chatRequests'[R].matchId = m
                /\ (isUser /\ ~ActiveChatOf(m) /\ PendingFor(m) = {}) => last'.ok
      ]_vars

\* A send has been refused because of an active session that stores the pair
\* in the order opposite to the match's.
C28_Witness ==
    /\ last.op = "send"
    /\ ~last.ok
    /\ last.error = "You already have an active chat with this person"
    /\ \E s \in SessionIds :
           /\ chatSessions[s].status = "active"
           /\ chatSessions[s].user1Id = matches[last.arg].user2Id
           /\ chatSessions[s].user2Id = matches[last.arg].user1Id

\* C29: decline of a pending request by its addressee sets its status to
\* declined, changes no session and no match, and leaves the match without a
\* pending request; and a send for a match that has a declined request, no
\* pending request and no active session between its users succeeds.
C29_DeclineFreesTheMatch ==
    [][/\ \A u \in Users, r \in RequestIds :
              (/\ IsCall("decline", u, r)
               /\ chatRequests[r].toUserId = u
               /\ chatRequests[r].status = "pending")
              => /\ last'.ok
                 /\ chatRequests'[r].status = "declined"
                 /\ chatSessions' = chatSessions
                 /\ matches' = matches
                 /\ \A q \in 1..Len(chatRequests') :
                        chatRequests'[q].matchId = chatRequests[r].matchId
                        => chatRequests'[q].status # "pending"
       /\ \A u \in Users, m \in MatchIds :
              (/\ IsCall("send", u, m)
               /\ u \in {matches[m].user1Id, matches[m].user2Id}
               /\ \E r \in RequestIds : /\ chatRequests[r].matchId = m
                                        /\ chatRequests[r].status = "declined"
               /\ PendingFor(m) = {}
               /\ ~ActiveChatOf(m))
              => /\ last'.ok
                 /\ Len(chatRequests') = Len(chatRequests) + 1
      ]_vars

\* After a declined request, a new request for the same match has been sent.
C29_Witness ==
    /\ last.op = "send"
    /\ last.ok
    /\ Len(chatRequests) = 2
    /\ chatRequests[1].status = "declined"
    /\ chatRequests[1].matchId = last.arg
    /\ chatRequests[2].status = "pending"
    /\ chatRequests[2].matchId = last.arg

\* C30: no step changes the user1Id, user2Id or matchedAt of a match, and a
\* step that changes its chatSessionId is a successful accept of a request
\* whose matchId is that match.
C30_MatchFixedButForItsLink ==
    [][\A m \in MatchIds :
          /\ matches'[m].user1Id = matches[m].user1Id
          /\ matches'[m].user2Id = matches[m].user2Id
          /\ matches'[m].matchedAt = matches[m].matchedAt
          /\ matches'[m].chatSessionId # matches[m].chatSessionId
             => /\ calls' = calls + 1
                /\ last'.op = "accept"
                /\ last'.ok
                /\ chatRequests[last'.arg].matchId = m
      ]_vars

\* Time has passed and an accept has pointed the match to a session that
\* stores the pair in the other order; the match's users and matchedAt are
\* those it was created with.
C30_Witness ==
    /\ last.op = "accept"
    /\ last.ok
    /\ now > 0
    /\ matches[1] = [user1Id |-> 2, user2Id |-> 1,
                     chatSessionId |-> last.result.chatSessionId, matchedAt |-> 0]
    /\ last.result.chatSessionId # 1
    /\ chatSessions[last.result.chatSessionId].user1Id = 1

\* ------------------------------------------------------- global invariants

\* C33: in every state at most one user has the queue flag set; and a
\* successful join either finds no other user waiting and leaves the caller
\* as the only waiting user, or takes one waiting candidate out of the queue
\* and adds nobody but, at most, the caller.
C33_AtMostOneWaiting ==
    /\ [](Cardinality(WaitingUsers) <= 1)
    /\ [][\A u \in Users :
              (IsCall("join", u, <<>>) /\ last'.ok)
              => \/ /\ WaitingUsers \ {u} = {}
                    /\ WaitingUsers' = {u}
                 \/ \E m \in WaitingUsers \ {u} :
                        /\ m \notin WaitingUsers'
                        /\ WaitingUsers' \subseteq (WaitingUsers \ {m}) \cup {u}
         ]_vars

\* A join has taken its candidate out of the queue and put the caller in.
C33_Witness ==
    /\ last.op = "join"
    /\ last.ok
    /\ "found" \in DOMAIN last
    /\ last.found.matchedUser # 0
    /\ WaitingUsers = {last.user}

\* C34: in every state no user with the queue flag set participates in a
\* session with status active.
C34_NoWaitingUserInActiveSession ==
    \A u \in Users : isInQueue[u] => ~HasActiveSession(u)

\* C35: in every state a session with status waiting_reveal has exactly one
\* of its two decision slots set; and a makeDecision that leaves both slots
\* set leaves the session active(extended) or ended.
C35_WaitingRevealHasOneDecision ==
    /\ [](\A s \in SessionIds :
              chatSessions[s].status = "waiting_reveal"
              => (IsDefined(chatSessions[s].user1WantsContinue)
                     # IsDefined(chatSessions[s].user2WantsContinue)))
    /\ [][\A u \in Users, s \in SessionIds, w \in BOOLEAN :
              (/\ IsCall("makeDecision", u, <<s, w>>)
               /\ IsDefined(chatSessions'[s].user1WantsContinue)
               /\ IsDefined(chatSessions'[s].user2WantsContinue))
              => \/ /\ chatSessions'[s].status = "active"
                    /\ chatSessions'[s].phase = "extended"
                 \/ chatSessions'[s].status = "ended"
         ]_vars

\* A decision on an extended session has put it in waiting_reveal with one
\* slot set.
C35_Witness ==
    /\ last.op = "makeDecision"
    /\ last.ok
    /\ chatSessions[last.arg[1]].status = "waiting_reveal"
    /\ chatSessions[last.arg[1]].phase = "extended"
    /\ IsDefined(OwnDecision(chatSessions[last.arg[1]], last.user))
    /\ ~IsDefined(OtherDecision(chatSessions[last.arg[1]], last.user))

\* C36: in every state every session with phase extended has a match whose
\* two users are its two participants, in either order.
C36_ExtendedSessionHasMatch ==
    \A s \in SessionIds :
        chatSessions[s].phase = "extended"
        => \E m \in MatchIds :
               {matches[m].user1Id, matches[m].user2Id} = Participants(chatSessions[s])

\* Sessions extended by decisions or skip votes and by accept exist together:
\* the accepted one stores the pair in the order opposite to the match's.
C36_Witness ==
    /\ last.op = "accept"
    /\ last.ok
    /\ \E s \in SessionIds : /\ chatSessions[s].phase = "extended"
                             /\ IsDefined(chatSessions[s].speedDatingEndsAt)
    /\ \E m \in MatchIds :
           /\ chatSessions[last.result.chatSessionId].phase = "extended"
           /\ chatSessions[last.result.chatSessionId].user1Id = matches[m].user2Id
           /\ chatSessions[last.result.chatSessionId].user2Id = matches[m].user1Id

\* C37: in every state at most one match links any one session.
C37_OneMatchPerSession ==
    \A s \in SessionIds :
        Cardinality({m \in MatchIds : matches[m].chatSessionId = s}) <= 1

\* C38: no step changes the status of a request that is accepted or declined.
C38_ResolvedRequestIsTerminal ==
    [][\A r \in RequestIds :
          chatRequests[r].status \in {"accepted", "declined"}
          => chatRequests'[r].status = chatRequests[r].status
      ]_vars

\* C39: in every state the session a match links has the match's two users
\* as its two participants, in either order.
C39_LinkedSessionHasSamePair ==
    \A m \in MatchIds :
        Participants(chatSessions[matches[m].chatSessionId])
            = {matches[m].user1Id, matches[m].user2Id}

\* An accept has pointed a match to a session other than the one it was
\* created with, storing the pair in the opposite order.
C39_Witness ==
    /\ last.op = "accept"
    /\ last.ok
    /\ LET m == chatRequests[last.arg].matchId IN
       /\ matches[m].chatSessionId = last.result.chatSessionId
       /\ matches[m].chatSessionId # 1
       /\ chatSessions[matches[m].chatSessionId].user1Id = matches[m].user2Id
       /\ chatSessions[matches[m].chatSessionId].user2Id = matches[m].user1Id

\* C40: in every state the two participants of every session differ.
C40_DistinctParticipants ==
    \A s \in SessionIds : chatSessions[s].user1Id # chatSessions[s].user2Id

\* A caller whose queue flag was already set has joined again, with nobody
\* else waiting: no session with the caller on both sides came of it.
C40_Witness ==
    /\ last.op = "join"
    /\ last.ok
    /\ "found" \in DOMAIN last
    /\ last.found.matchedUser = 0
    /\ last.found.wasInQueue
    /\ isInQueue[last.user]
    /\ chatSessions # <<>>
    /\ \A s \in SessionIds : Cardinality(Participants(chatSessions[s])) = 2

\* ------------------------------------------------------------ user deletion

\* C31: in every state no remaining session, match, request or message
\* references a deleted user, and no remaining message or request references
\* a deleted session or match.
C31_NoReferenceToDeleted ==
    /\ \A s \in LiveSessionIds : Participants(chatSessions[s]) \cap deleted.users = {}
    /\ \A m \in LiveMatchIds :
           {matches[m].user1Id, matches[m].user2Id} \cap deleted.users = {}
    /\ \A r \in RequestIds :
           /\ {chatRequests[r].fromUserId, chatRequests[r].toUserId} \cap deleted.users = {}
           /\ chatRequests[r].matchId \notin deleted.matches
    /\ \A i \in 1..Len(messages) :
           /\ messages[i].senderId \notin deleted.users
           /\ messages[i].chatSessionId \notin deleted.chatSessions

\* C32: list(user) returns, once each, exactly the matches in which the user
\* is a participant and whose counterpart still exists, and an entry's
\* hasActiveChat is true if and only if the session the match links now has
\* status active.
C32_ListReturnsLiveMatches ==
    \A u \in LiveUsers :
        LET entries == list(u).result IN
        /\ list(u).ok
        /\ {entries[i]._id : i \in 1..Len(entries)}
               = {m \in LiveMatchIds :
                      /\ u \in {matches[m].user1Id, matches[m].user2Id}
                      /\ {matches[m].user1Id, matches[m].user2Id} \subseteq LiveUsers}
        /\ \A i, j \in 1..Len(entries) : entries[i]._id = entries[j]._id => i = j
        /\ \A i \in 1..Len(entries) :
               entries[i].hasActiveChat
                   <=> /\ matches[entries[i]._id].chatSessionId \in LiveSessionIds
                       /\ chatSessions[matches[entries[i]._id].chatSessionId].status
                              = "active"

\* The session an accept opened has been left: user 1's one entry links it,
\* without an active chat, and user 3 has no entry.
C32_Witness ==
    /\ last.op = "leaveChat"
    /\ last.ok
    /\ last.arg # 1
    /\ list(3).result = <<>>
    /\ Len(list(1).result) = 1
    /\ list(1).result[1].chatSessionId = last.arg
    /\ ~list(1).result[1].hasActiveChat

====
